---- MODULE Spec2Model ----
(***************************************************************************)
(* Model of the Angular front end of kafka-msg-publisher:                   *)
(*   src/src/app/app.component.ts        (AppComponent)                     *)
(*   src/src/app/services/tauri.service.ts (TauriService, tauriInvoke)      *)
(*                                                                         *)
(* JavaScript runs every handler and every promise continuation to          *)
(* completion, so one action of this model is one such run: a handler up to *)
(* its first await on the backend or on a timer, or the continuation that   *)
(* runs when the awaited promise settles, up to the next await.  A promise   *)
(* that is already rejected when it is awaited (tauriInvoke outside the     *)
(* Tauri webview) is continued in a microtask, before any other handler:    *)
(* while such a continuation is due, MicrotaskPending blocks all handlers.  *)
(*                                                                         *)
(* Strings that the code trims are sequences of one-character strings;      *)
(* error messages and status words are TLA+ strings.                        *)
(***************************************************************************)
EXTENDS Naturals, Sequences, FiniteSets, Bags

\* ------------------------------------------------------------------ bounds
\* concurrent testConnection() invocations kept in the model
MaxTests == 2
\* concurrent checkConnectionWithSpinner() invocations kept in the model
MaxChecks == 2
\* concurrent saveConfig() invocations kept in the model
MaxSaves == 1
\* sendMessage() invocations that pass the guard in one behaviour
MaxSends == 2

\* ------------------------------------------------------- program constants
\* checkConnectionWithSpinner: this.tauriService.testConnection(10)
CheckTimeoutSecs == 10
\* a longer wait for slow brokers
TestTimeoutSecs_Long == 3 * 10
\* testConnection: this.tauriService.testConnection(10)
TestTimeoutSecs == 10
\* TauriService.testConnection(timeoutSecs: number = 5)
DefaultTimeoutSecs == 5
\* setTimeout(..., 10000) in sendMessage
SendTimeoutMs == 10000

NotTauriMessage == "Not running inside Tauri. Use \"npx tauri dev\" to launch the app."
SendTimeoutMessage == "Send timeout: Kafka server unreachable"
SendFallbackMessage == "Failed to send message"
CreateFallbackMessage == "Failed to create topic"
ConsumeFallbackMessage == "Failed to consume messages"
NoMessagesFound == "No messages found at the specified offset."

\* ------------------------------------------------------------------ strings
Whitespace == {" "}

RECURSIVE TrimStart(_)
TrimStart(s) ==
    IF s = <<>> THEN <<>>
    ELSE IF Head(s) \in Whitespace THEN TrimStart(Tail(s)) ELSE s

RECURSIVE TrimEnd(_)
TrimEnd(s) ==
    IF s = <<>> THEN <<>>
    ELSE IF s[Len(s)] \in Whitespace THEN TrimEnd(SubSeq(s, 1, Len(s) - 1)) ELSE s

\* String.prototype.trim
Trim(s) == TrimEnd(TrimStart(s))

\* (message || fallback): the empty string is falsy
OrElse(message, fallback) == IF message = "" THEN fallback ELSE message

\* ------------------------------------------------------------------- inputs
\* contents a dropped or attached file can have
FileContents == { <<" ">>, <<" ", "m">> }
\* names typed into the create-topic and consumer forms
TopicNames == { <<>>, <<" ">>, <<"t", " ">> }
\* paths the certificate file dialog can return
CertPaths == { "/ca.pem" }
\* the fields browseCertFile can set
CertFields == { "ssl_ca_cert_path", "ssl_client_cert_path", "ssl_client_key_path" }

\* the component's initial config (only the fields the component reads or writes)
DefaultConfig ==
    [ topic |-> <<"d">>, security_protocol |-> "Plaintext",
      ssl_ca_cert_path |-> "", ssl_client_cert_path |-> "", ssl_client_key_path |-> "" ]

\* configurations the backend can hold on disk when the program starts
StoredConfigs ==
    { [ DefaultConfig EXCEPT !.topic = <<"k">>, !.security_protocol = "SaslSsl" ] }

\* Err strings of the backend, per command
TestErrors == { "timeout", "refused" }
SendErrors == { "rejected", "" }
SaveErrors == { "invalid" }
CreateErrors == { "exists", "" }
ConsumeErrors == { "notfound", "" }

\* payloads of Ok envelopes
SendResults == { [ success |-> TRUE, message |-> "sent" ] }
TopicResults == { [ success |-> TRUE, message |-> "created" ] }
MessageBatches == { <<>>, << [ offset |-> 0, value |-> "v" ] >> }

\* ---------------------------------------------------------- TauriService
Envelope(type, data) == [ type |-> type, data |-> data ]
Resolve(value) == [ kind |-> "resolve", value |-> value, message |-> "" ]
Reject(message) == [ kind |-> "reject", value |-> "", message |-> message ]

\* a reply of invoke that is not a CommandResult envelope
Plain(data) == [ type |-> "plain", data |-> data ]

\* tauriInvoke going on to invoke without looking at isTauri()
NotTauri_Resolved == Resolve("")
\* tauriInvoke outside the Tauri webview
NotTauriRejection == Reject(NotTauriMessage)

\* TauriService.getConfig after the invoke returned `cfg`
Service_getConfig(cfg) == Resolve(cfg)

\* TauriService.sendMessage after the invoke returned `result`
Service_sendMessage(result) ==
    IF result.type = "Ok" THEN Resolve(result.data) ELSE Reject(result.data)

\* saveConfig without its check of the envelope
Service_saveConfig_Swallow(result) == Resolve("")
\* TauriService.saveConfig after the invoke returned `result`
Service_saveConfig(result) ==
    IF result.type = "Err" THEN Reject(result.data) ELSE Resolve("")

\* TauriService.testConnection after the invoke returned `result`
Service_testConnection(result) ==
    IF result.type = "Ok" THEN Resolve(result.data) ELSE Reject(result.data)

\* TauriService.createTopic after the invoke returned `result`
Service_createTopic(result) ==
    IF result.type = "Ok" THEN Resolve(result.data) ELSE Reject(result.data)

\* TauriService.consumeMessages after the invoke returned `result`
Service_consumeMessages(result) ==
    IF result.type = "Ok" THEN Resolve(result.data) ELSE Reject(result.data)

\* -------------------------------------------------------------------- state
VARIABLES
    inTauri,            \* window.__TAURI_INTERNALS__ is present
    persisted,          \* the configuration the backend holds on disk
    config,             \* AppComponent.config
    showSettings,       \* AppComponent.showSettings
    initPc,             \* position of ngOnInit
    saves,              \* bag of the configs of saveConfig() calls awaiting the backend
    connectionStatus,   \* AppComponent.connectionStatus
    isTesting,          \* AppComponent.isTesting
    isLoading,          \* AppComponent.isLoading
    testingCancelled,   \* AppComponent.testingCancelled
    tests,              \* bag of the testConnection() invocations past the guard
    checks,             \* bag of the checkConnectionWithSpinner() invocations
    messageContent,     \* AppComponent.messageContent
    messages,           \* AppComponent.messages, newest first
    isSending,          \* AppComponent.isSending
    nextId,             \* number of ids generateId() has handed out
    sendEntry,          \* id of the entry the running sendMessage() holds
    newTopicName,       \* AppComponent.newTopicName
    isCreatingTopic,    \* AppComponent.isCreatingTopic
    topicCreateStatus,  \* AppComponent.topicCreateStatus
    topicCreateMessage, \* AppComponent.topicCreateMessage
    creates,            \* bag of the names of the create-topic requests awaiting the backend
    consumeTopic,       \* AppComponent.consumeTopic
    isConsuming,        \* AppComponent.isConsuming
    consumedMessages,   \* AppComponent.consumedMessages
    consumeError,       \* AppComponent.consumeError
    fetches,            \* bag of the topics of the consume requests awaiting the backend
    settled             \* the TauriService promise settled by the last step

envVars == << inTauri >>
cfgVars == << persisted, config, showSettings, saves >>
connVars == << connectionStatus, isTesting, isLoading, testingCancelled, tests, checks >>
sendVars == << messageContent, messages, isSending, nextId, sendEntry >>
topicVars == << newTopicName, isCreatingTopic, topicCreateStatus, topicCreateMessage, creates >>
consumeVars == << consumeTopic, isConsuming, consumedMessages, consumeError, fetches >>

vars == << inTauri, persisted, config, showSettings, initPc, saves,
           connectionStatus, isTesting, isLoading, testingCancelled, tests, checks,
           messageContent, messages, isSending, nextId, sendEntry,
           newTopicName, isCreatingTopic, topicCreateStatus, topicCreateMessage, creates,
           consumeTopic, isConsuming, consumedMessages, consumeError, fetches,
           settled >>

NoEnvelope == [ type |-> "none", data |-> "" ]
Unsettled == [ op |-> "none", result |-> NoEnvelope, outcome |-> Reject("") ]
Settled(op, result, outcome) == [ op |-> op, result |-> result, outcome |-> outcome ]

\* an invocation of testConnection or checkConnectionWithSpinner at its await of
\* the service call: its local `result` and the timeout it passed
NewRun(timeoutSecs) ==
    [ stage |-> "await", result |-> "error", timeoutSecs |-> timeoutSecs, cancelled |-> FALSE ]

Put(bag, e) == bag (+) SetToBag({ e })
Take(bag, e) == bag (-) SetToBag({ e })
Awaiting(bag) == { r \in BagToSet(bag) : r.stage = "await" }
Delaying(bag) == { r \in BagToSet(bag) : r.stage = "delay" }

\* the state after construction (field initialisers of AppComponent)
Init ==
    /\ inTauri \in BOOLEAN
    /\ persisted \in StoredConfigs
    /\ config = DefaultConfig
    /\ showSettings = FALSE
    /\ initPc = "start"
    /\ saves = EmptyBag
    /\ connectionStatus = "unknown"
    /\ isTesting = FALSE
    /\ isLoading = FALSE
    /\ testingCancelled = FALSE
    /\ tests = EmptyBag
    /\ checks = EmptyBag
    /\ messageContent = <<>>
    /\ messages = <<>>
    /\ isSending = FALSE
    /\ nextId = 0
    /\ sendEntry = 0
    /\ newTopicName = <<>>
    /\ isCreatingTopic = FALSE
    /\ topicCreateStatus = "none"
    /\ topicCreateMessage = ""
    /\ creates = EmptyBag
    /\ consumeTopic = <<>>
    /\ isConsuming = FALSE
    /\ consumedMessages = <<>>
    /\ consumeError = ""
    /\ fetches = EmptyBag
    /\ settled = Unsettled

\* ------------------------------------------------------------- scheduling
\* a backend call is awaited whose promise tauriInvoke has already rejected
MicrotaskPending ==
    /\ ~inTauri
    /\ \/ initPc = "loadConfig"
       \/ Awaiting(tests) # {}
       \/ Awaiting(checks) # {}
       \/ saves # EmptyBag
       \/ isSending
       \/ creates # EmptyBag
       \/ fetches # EmptyBag

\* an event handler or a timer callback can run
Ready == initPc # "start" /\ ~MicrotaskPending

\* Date.now() - startTime < 800 when the awaited call settles; a promise that
\* tauriInvoke rejected at once settles within the same millisecond
ElapsedChoices == IF inTauri THEN BOOLEAN ELSE { TRUE }

\* ------------------------------------------- checkConnectionWithSpinner
\* checkConnectionWithSpinner up to its await of testConnection(10)
StartCheck ==
    /\ BagCardinality(checks) < MaxChecks
    /\ connectionStatus' = "testing"
    /\ checks' = Put(checks, NewRun(CheckTimeoutSecs))

\* checkConnectionWithSpinner from the settled testConnection to its end or to
\* its await of delay()
CheckContinue(j, outcome, short) ==
    LET result == IF outcome.kind = "resolve" THEN "connected" ELSE "error" IN
    IF short
    THEN /\ checks' = Put(Take(checks, j), [ j EXCEPT !.stage = "delay", !.result = result ])
         /\ UNCHANGED connectionStatus
    ELSE /\ checks' = Take(checks, j)
         /\ connectionStatus' = result

\* the backend answers the test_kafka_connection request of check j
CheckReply(j) ==
    /\ j \in Awaiting(checks)
    /\ \E short \in ElapsedChoices :
         IF inTauri
         THEN \E type \in { "Ok", "Err" } :
              \E data \in IF type = "Ok" THEN { TRUE } ELSE TestErrors :
                LET result == Envelope(type, data)
                    outcome == Service_testConnection(result) IN
                /\ CheckContinue(j, outcome, short)
                /\ settled' = Settled("testConnection", result, outcome)
         ELSE /\ CheckContinue(j, NotTauriRejection, short)
              /\ settled' = Settled("testConnection", NoEnvelope, NotTauriRejection)
    /\ UNCHANGED << envVars, cfgVars, initPc, isTesting, isLoading, testingCancelled, tests,
                    sendVars, topicVars, consumeVars >>

\* the delay() timer of check j fires
CheckDelayDone(j) ==
    /\ ~MicrotaskPending
    /\ j \in Delaying(checks)
    /\ connectionStatus' = j.result
    /\ checks' = Take(checks, j)
    /\ settled' = Unsettled
    /\ UNCHANGED << envVars, cfgVars, initPc, isTesting, isLoading, testingCancelled, tests,
                    sendVars, topicVars, consumeVars >>

\* ------------------------------------------------------------ ngOnInit
\* ngOnInit starting the check before it awaits loadConfig()
NgOnInit_CheckFirst ==
    /\ initPc = "start"
    /\ initPc' = "loadConfig"
    /\ StartCheck
    /\ settled' = Unsettled
    /\ UNCHANGED << envVars, cfgVars, isTesting, isLoading, testingCancelled, tests,
                    sendVars, topicVars, consumeVars >>

\* ngOnInit up to the await of getConfig() inside loadConfig()
NgOnInit ==
    /\ initPc = "start"
    /\ initPc' = "loadConfig"
    /\ settled' = Unsettled
    /\ UNCHANGED << envVars, cfgVars, connVars, sendVars, topicVars, consumeVars >>

\* loadConfig after getConfig settled with `outcome`
LoadContinue(outcome) ==
    config' = IF outcome.kind = "resolve" THEN outcome.value ELSE config

\* get_kafka_config answers: loadConfig ends and ngOnInit goes on to
\* setupFileDropListener, which returns at once outside Tauri
GetConfigReply ==
    /\ initPc = "loadConfig"
    /\ IF inTauri
       THEN LET outcome == Service_getConfig(persisted) IN
            /\ LoadContinue(outcome)
            /\ settled' = Settled("getConfig", Plain(persisted), outcome)
            /\ initPc' = "setupFileDrop"
            /\ UNCHANGED << connectionStatus, checks >>
       ELSE /\ LoadContinue(NotTauriRejection)
            /\ settled' = Settled("getConfig", NoEnvelope, NotTauriRejection)
            /\ initPc' = "done"
            /\ StartCheck
    /\ UNCHANGED << envVars, persisted, showSettings, saves, isTesting, isLoading,
                    testingCancelled, tests, sendVars, topicVars, consumeVars >>

\* the listeners are registered: ngOnInit loads the theme and starts the check
SetupFileDropDone ==
    /\ initPc = "setupFileDrop"
    /\ initPc' = "done"
    /\ StartCheck
    /\ settled' = Unsettled
    /\ UNCHANGED << envVars, cfgVars, isTesting, isLoading, testingCancelled, tests,
                    sendVars, topicVars, consumeVars >>

\* -------------------------------------------------------- testConnection
\* testConnection from line 216: the result is published unless cancelled
TestFinish(i, result) ==
    /\ connectionStatus' = IF ~testingCancelled THEN result ELSE connectionStatus
    /\ isTesting' = FALSE
    /\ isLoading' = FALSE
    /\ tests' = Take(tests, i)

\* testConnection from the settled service call to its end or to its await of
\* delay()
TestContinue(i, outcome, short) ==
    LET result ==
            IF outcome.kind = "resolve"
            THEN IF ~testingCancelled THEN "connected" ELSE i.result
            ELSE IF ~testingCancelled THEN "error" ELSE i.result
    IN  IF short /\ ~testingCancelled
        THEN /\ tests' = Put(Take(tests, i), [ i EXCEPT !.stage = "delay", !.result = result ])
             /\ UNCHANGED << connectionStatus, isTesting, isLoading >>
        ELSE TestFinish(i, result)

\* the user starts a connection test
TestConnection ==
    /\ Ready
    /\ IF isTesting
       THEN UNCHANGED connVars
       ELSE /\ BagCardinality(tests) < MaxTests
            /\ isTesting' = TRUE
            /\ isLoading' = TRUE
            /\ testingCancelled' = FALSE
            /\ connectionStatus' = "testing"
            /\ tests' = Put(tests, NewRun(TestTimeoutSecs))
            /\ UNCHANGED checks
    /\ settled' = Unsettled
    /\ UNCHANGED << envVars, cfgVars, initPc, sendVars, topicVars, consumeVars >>

\* the backend answers the test_kafka_connection request of test i
TestReply(i) ==
    /\ i \in Awaiting(tests)
    /\ \E short \in ElapsedChoices :
         IF inTauri
         THEN \E type \in { "Ok", "Err" } :
              \E data \in IF type = "Ok" THEN { TRUE } ELSE TestErrors :
                LET result == Envelope(type, data)
                    outcome == Service_testConnection(result) IN
                /\ TestContinue(i, outcome, short)
                /\ settled' = Settled("testConnection", result, outcome)
         ELSE /\ TestContinue(i, NotTauriRejection, short)
              /\ settled' = Settled("testConnection", NoEnvelope, NotTauriRejection)
    /\ UNCHANGED << envVars, cfgVars, initPc, testingCancelled, checks,
                    sendVars, topicVars, consumeVars >>

\* the delay() timer of test i fires
TestDelayDone(i) ==
    /\ ~MicrotaskPending
    /\ i \in Delaying(tests)
    /\ TestFinish(i, i.result)
    /\ settled' = Unsettled
    /\ UNCHANGED << envVars, cfgVars, initPc, testingCancelled, checks,
                    sendVars, topicVars, consumeVars >>

\* the bag with its runs in `hit` marked as having seen a cancel
MarkCancelled(bag, hit) ==
    LET mark(r) == IF r \in hit THEN [ r EXCEPT !.cancelled = TRUE ] ELSE r
        marked == { mark(r) : r \in BagToSet(bag) }
    IN  [ m \in marked |->
            LET from == { r \in BagToSet(bag) : mark(r) = m }
                count[S \in SUBSET from] ==
                    IF S = {} THEN 0
                    ELSE LET r == CHOOSE x \in S : TRUE IN bag[r] + count[S \ { r }]
            IN  count[from] ]

\* cancelTestConnection; the field `cancelled` of a run records that the
\* cancel came while the run awaited the backend (tests) or was running (checks)
CancelTestConnection ==
    /\ Ready
    /\ testingCancelled' = TRUE
    /\ isTesting' = FALSE
    /\ isLoading' = FALSE
    /\ connectionStatus' = "unknown"
    /\ tests' = MarkCancelled(tests, Awaiting(tests))
    /\ checks' = MarkCancelled(checks, BagToSet(checks))
    /\ settled' = Unsettled
    /\ UNCHANGED << envVars, cfgVars, initPc, sendVars, topicVars, consumeVars >>

\* ----------------------------------------------------------- configuration
\* the user opens the settings panel (the template sets showSettings)
OpenSettings ==
    /\ Ready
    /\ ~showSettings
    /\ showSettings' = TRUE
    /\ settled' = Unsettled
    /\ UNCHANGED << envVars, persisted, config, saves, initPc, connVars,
                    sendVars, topicVars, consumeVars >>

\* browseCertFile(field) with a file chosen in the dialog
BrowseCertFile(field) ==
    /\ Ready
    /\ inTauri
    /\ \E selected \in CertPaths : config' = [ config EXCEPT ![field] = selected ]
    /\ settled' = Unsettled
    /\ UNCHANGED << envVars, persisted, showSettings, saves, initPc, connVars,
                    sendVars, topicVars, consumeVars >>

\* saveConfig up to its await of the service call
SaveConfig ==
    /\ Ready
    /\ BagCardinality(saves) < MaxSaves
    /\ saves' = Put(saves, config)
    /\ settled' = Unsettled
    /\ UNCHANGED << envVars, persisted, config, showSettings, initPc, connVars,
                    sendVars, topicVars, consumeVars >>

\* save_kafka_config: the backend stores the configuration and answers Ok, or
\* answers Err and leaves the stored configuration alone
Backend_save(type, cfg) == IF type = "Ok" THEN cfg ELSE persisted

\* saveConfig closing the panel and re-checking in a finally block
SaveContinue_Finally(outcome) == showSettings' = FALSE /\ StartCheck
\* saveConfig after the service call settled with `outcome`
SaveContinue(outcome) ==
    IF outcome.kind = "resolve"
    THEN showSettings' = FALSE /\ StartCheck
    ELSE UNCHANGED << showSettings, connectionStatus, checks >>

\* the backend answers save k: saveConfig closes the panel and starts a check
\* when the service call resolved
SaveConfigReply(k) ==
    /\ BagIn(k, saves)
    /\ saves' = Take(saves, k)
    /\ IF inTauri
       THEN \E type \in { "Ok", "Err" } :
            \E data \in IF type = "Ok" THEN { "" } ELSE SaveErrors :
              LET result == Envelope(type, data)
                  outcome == Service_saveConfig(result) IN
              /\ persisted' = Backend_save(type, k)
              /\ settled' = Settled("saveConfig", result, outcome)
              /\ SaveContinue(outcome)
       ELSE /\ settled' = Settled("saveConfig", NoEnvelope, NotTauriRejection)
            /\ SaveContinue(NotTauriRejection)
            /\ UNCHANGED persisted
    /\ UNCHANGED << envVars, config, initPc, isTesting, isLoading, testingCancelled, tests,
                    sendVars, topicVars, consumeVars >>

\* ------------------------------------------------------------ sendMessage
\* onDrop: the dropped file was read
OnDrop ==
    /\ Ready
    /\ \E content \in FileContents : messageContent' = content
    /\ settled' = Unsettled
    /\ UNCHANGED << envVars, cfgVars, initPc, connVars, messages, isSending, nextId,
                    sendEntry, topicVars, consumeVars >>

\* attachFile: a file was chosen in the dialog and read
AttachFile ==
    /\ Ready
    /\ inTauri
    /\ \E content \in FileContents : messageContent' = content
    /\ settled' = Unsettled
    /\ UNCHANGED << envVars, cfgVars, initPc, connVars, messages, isSending, nextId,
                    sendEntry, topicVars, consumeVars >>

\* clearHistory
ClearHistory ==
    /\ Ready
    /\ messages' = <<>>
    /\ settled' = Unsettled
    /\ UNCHANGED << envVars, cfgVars, initPc, connVars, messageContent, isSending, nextId,
                    sendEntry, topicVars, consumeVars >>

\* the entry sendMessage creates
NewEntry(id, content) ==
    [ id |-> id, content |-> content, status |-> "pending", errorMessage |-> "" ]

\* sendMessage testing the content only, not isSending
SendMessage_NoBusyGuard ==
    /\ Ready
    /\ IF Trim(messageContent) = <<>>
       THEN UNCHANGED sendVars
       ELSE /\ nextId < MaxSends
            /\ nextId' = nextId + 1
            /\ messages' = << NewEntry(nextId + 1, messageContent) >> \o messages
            /\ sendEntry' = nextId + 1
            /\ isSending' = TRUE
            /\ UNCHANGED messageContent
    /\ settled' = Unsettled
    /\ UNCHANGED << envVars, cfgVars, initPc, connVars, topicVars, consumeVars >>

\* sendMessage up to its await of Promise.race
SendMessage ==
    /\ Ready
    /\ IF Trim(messageContent) = <<>> \/ isSending
       THEN UNCHANGED sendVars
       ELSE /\ nextId < MaxSends
            /\ nextId' = nextId + 1
            /\ messages' = << NewEntry(nextId + 1, messageContent) >> \o messages
            /\ sendEntry' = nextId + 1
            /\ isSending' = TRUE
            /\ UNCHANGED messageContent
    /\ settled' = Unsettled
    /\ UNCHANGED << envVars, cfgVars, initPc, connVars, topicVars, consumeVars >>

\* the assignments to `entry` after the race settled with `outcome`
SettleEntry(entry, outcome) ==
    IF outcome.kind = "resolve"
    THEN [ entry EXCEPT !.status = "success" ]
    ELSE [ entry EXCEPT !.status = "error",
                        !.errorMessage = OrElse(outcome.message, SendFallbackMessage) ]

\* sendMessage clearing the composer in its finally block
SendContinue_ClearAlways(outcome) ==
    /\ messages' = [ n \in DOMAIN messages |->
                       IF messages[n].id = sendEntry
                       THEN SettleEntry(messages[n], outcome) ELSE messages[n] ]
    /\ messageContent' = <<>>
    /\ connectionStatus' = IF outcome.kind = "resolve" THEN "connected" ELSE "error"
    /\ isSending' = FALSE
    /\ sendEntry' = 0

\* sendMessage marking every entry of the history instead of its own
SendContinue_All(outcome) ==
    /\ messages' = [ n \in DOMAIN messages |-> SettleEntry(messages[n], outcome) ]
    /\ messageContent' = IF outcome.kind = "resolve" THEN <<>> ELSE messageContent
    /\ connectionStatus' = IF outcome.kind = "resolve" THEN "connected" ELSE "error"
    /\ isSending' = FALSE
    /\ sendEntry' = 0

\* sendMessage after Promise.race settled with `outcome`
SendContinue(outcome) ==
    /\ messages' = [ n \in DOMAIN messages |->
                       IF messages[n].id = sendEntry
                       THEN SettleEntry(messages[n], outcome) ELSE messages[n] ]
    /\ messageContent' = IF outcome.kind = "resolve" THEN <<>> ELSE messageContent
    /\ connectionStatus' = IF outcome.kind = "resolve" THEN "connected" ELSE "error"
    /\ isSending' = FALSE
    /\ sendEntry' = 0

\* the backend answers the send_kafka_message request before the timer fires
SendReply ==
    /\ isSending
    /\ IF inTauri
       THEN \E type \in { "Ok", "Err" } :
            \E data \in IF type = "Ok" THEN SendResults ELSE SendErrors :
              LET result == Envelope(type, data)
                  outcome == Service_sendMessage(result) IN
              /\ SendContinue(outcome)
              /\ settled' = Settled("sendMessage", result, outcome)
       ELSE /\ SendContinue(NotTauriRejection)
            /\ settled' = Settled("sendMessage", NoEnvelope, NotTauriRejection)
    /\ UNCHANGED << envVars, cfgVars, initPc, isTesting, isLoading, testingCancelled, tests,
                    checks, nextId, topicVars, consumeVars >>

\* sendMessage awaiting the service call alone, with no timer to race it
SendTimeout_NoTimer == FALSE /\ UNCHANGED vars

\* the 10 second timer of sendMessage fires before the backend answers
SendTimeout ==
    /\ ~MicrotaskPending
    /\ isSending
    /\ SendContinue(Reject(SendTimeoutMessage))
    /\ settled' = Unsettled
    /\ UNCHANGED << envVars, cfgVars, initPc, isTesting, isLoading, testingCancelled, tests,
                    checks, nextId, topicVars, consumeVars >>

\* ------------------------------------------------------------ createTopic
\* the user types into the topic name field (two-way binding of the template)
EditNewTopicName ==
    /\ Ready
    /\ \E name \in TopicNames : newTopicName' = name
    /\ settled' = Unsettled
    /\ UNCHANGED << envVars, cfgVars, initPc, connVars, sendVars, isCreatingTopic,
                    topicCreateStatus, topicCreateMessage, creates, consumeVars >>

\* createTopic testing the name only, not isCreatingTopic
CreateTopic_NoBusyGuard ==
    /\ Ready
    /\ IF Trim(newTopicName) = <<>>
       THEN UNCHANGED topicVars
       ELSE /\ isCreatingTopic' = TRUE
            /\ topicCreateStatus' = "none"
            /\ topicCreateMessage' = ""
            /\ creates' = Put(creates, Trim(newTopicName))
            /\ UNCHANGED newTopicName
    /\ settled' = Unsettled
    /\ UNCHANGED << envVars, cfgVars, initPc, connVars, sendVars, consumeVars >>

\* createTopic up to its await of the service call
CreateTopic ==
    /\ Ready
    /\ IF Trim(newTopicName) = <<>> \/ isCreatingTopic
       THEN UNCHANGED topicVars
       ELSE /\ isCreatingTopic' = TRUE
            /\ topicCreateStatus' = "none"
            /\ topicCreateMessage' = ""
            /\ creates' = Put(creates, Trim(newTopicName))
            /\ UNCHANGED newTopicName
    /\ settled' = Unsettled
    /\ UNCHANGED << envVars, cfgVars, initPc, connVars, sendVars, consumeVars >>

\* createTopic after the service call settled with `outcome`
CreateContinue(outcome) ==
    /\ IF outcome.kind = "resolve"
       THEN /\ topicCreateStatus' = "success"
            /\ topicCreateMessage' = outcome.value.message
            /\ newTopicName' = <<>>
       ELSE /\ topicCreateStatus' = "error"
            /\ topicCreateMessage' = OrElse(outcome.message, CreateFallbackMessage)
            /\ UNCHANGED newTopicName
    /\ isCreatingTopic' = FALSE

\* the backend answers the create_kafka_topic request
CreateTopicReply ==
    /\ \E name \in BagToSet(creates) : creates' = Take(creates, name)
    /\ IF inTauri
       THEN \E type \in { "Ok", "Err" } :
            \E data \in IF type = "Ok" THEN TopicResults ELSE CreateErrors :
              LET result == Envelope(type, data)
                  outcome == Service_createTopic(result) IN
              /\ CreateContinue(outcome)
              /\ settled' = Settled("createTopic", result, outcome)
       ELSE /\ CreateContinue(NotTauriRejection)
            /\ settled' = Settled("createTopic", NoEnvelope, NotTauriRejection)
    /\ UNCHANGED << envVars, cfgVars, initPc, connVars, sendVars, consumeVars >>

\* ---------------------------------------------------------- fetchMessages
\* the user types into the consumer's topic field (two-way binding)
EditConsumeTopic ==
    /\ Ready
    /\ \E name \in TopicNames : consumeTopic' = name
    /\ settled' = Unsettled
    /\ UNCHANGED << envVars, cfgVars, initPc, connVars, sendVars, topicVars, isConsuming,
                    consumedMessages, consumeError, fetches >>

\* the typed topic passed on whenever something was typed, blank or not
FetchTopicOf_NoFallback(typed, cfg) == IF typed # <<>> THEN Trim(typed) ELSE cfg.topic
\* this.consumeTopic.trim() || this.config.topic
FetchTopicOf(typed, cfg) == IF Trim(typed) # <<>> THEN Trim(typed) ELSE cfg.topic

\* fetchMessages up to its await of the service call
FetchMessages ==
    /\ Ready
    /\ IF isConsuming
       THEN UNCHANGED consumeVars
       ELSE /\ isConsuming' = TRUE
            /\ consumeError' = ""
            /\ fetches' = Put(fetches, FetchTopicOf(consumeTopic, config))
            /\ UNCHANGED << consumeTopic, consumedMessages >>
    /\ settled' = Unsettled
    /\ UNCHANGED << envVars, cfgVars, initPc, connVars, sendVars, topicVars >>

\* what fetchMessages reports for a resolved batch
EmptyBatchNote(batch) == IF Len(batch) = 0 THEN NoMessagesFound ELSE consumeError

\* fetchMessages after the service call settled with `outcome`
FetchContinue(outcome) ==
    /\ IF outcome.kind = "resolve"
       THEN /\ consumedMessages' = outcome.value
            /\ consumeError' = EmptyBatchNote(outcome.value)
       ELSE /\ consumeError' = OrElse(outcome.message, ConsumeFallbackMessage)
            /\ consumedMessages' = <<>>
    /\ isConsuming' = FALSE

\* the backend answers the consume_kafka_messages request
FetchReply ==
    /\ \E topic \in BagToSet(fetches) : fetches' = Take(fetches, topic)
    /\ IF inTauri
       THEN \E type \in { "Ok", "Err" } :
            \E data \in IF type = "Ok" THEN MessageBatches ELSE ConsumeErrors :
              LET result == Envelope(type, data)
                  outcome == Service_consumeMessages(result) IN
              /\ FetchContinue(outcome)
              /\ settled' = Settled("consumeMessages", result, outcome)
       ELSE /\ FetchContinue(NotTauriRejection)
            /\ settled' = Settled("consumeMessages", NoEnvelope, NotTauriRejection)
    /\ UNCHANGED << envVars, cfgVars, initPc, connVars, sendVars, topicVars, consumeTopic >>

\* --------------------------------------------------------- specifications
\* ngOnInit and the connection check it starts
Startup ==
    \/ NgOnInit
    \/ GetConfigReply
    \/ SetupFileDropDone
    \/ \E j \in BagToSet(checks) : CheckReply(j)
    \/ \E j \in BagToSet(checks) : CheckDelayDone(j)

\* connection tests: the check ngOnInit starts and the tests the user starts
Next ==
    \/ Startup
    \/ TestConnection
    \/ \E i \in BagToSet(tests) : TestReply(i)
    \/ \E i \in BagToSet(tests) : TestDelayDone(i)
    \/ CancelTestConnection

Spec == Init /\ [][Next]_vars

\* the settings panel
ConfigNext ==
    \/ Startup
    \/ OpenSettings
    \/ \E field \in CertFields : BrowseCertFile(field)
    \/ SaveConfig
    \/ \E k \in BagToSet(saves) : SaveConfigReply(k)

ConfigSpec == Init /\ [][ConfigNext]_vars

\* saving from the settings panel, with one certificate field edited
SaveNext ==
    \/ Startup
    \/ OpenSettings
    \/ BrowseCertFile("ssl_ca_cert_path")
    \/ SaveConfig
    \/ \E k \in BagToSet(saves) : SaveConfigReply(k)

SaveSpec == Init /\ [][SaveNext]_vars

\* the message composer and its history
SendNext ==
    \/ Startup
    \/ OnDrop
    \/ AttachFile
    \/ ClearHistory
    \/ SendMessage
    \/ SendReply
    \/ SendTimeout

SendSpec == Init /\ [][SendNext]_vars

\* a timer set by setTimeout fires, and the continuation of a promise that is
\* already rejected runs; the backend need not ever answer
SendFairSpec ==
    SendSpec /\ WF_vars(SendTimeout) /\ WF_vars(~inTauri /\ SendReply)

\* topic creation and the message viewer
TopicNext ==
    \/ Startup
    \/ EditNewTopicName
    \/ CreateTopic
    \/ CreateTopicReply
    \/ EditConsumeTopic
    \/ FetchMessages
    \/ FetchReply

TopicSpec == Init /\ [][TopicNext]_vars

\* no call of the service awaits the backend
Quiet ==
    /\ initPc = "done"
    /\ tests = EmptyBag /\ checks = EmptyBag /\ saves = EmptyBag
    /\ ~isSending /\ creates = EmptyBag /\ fetches = EmptyBag

\* the five wrapped operations of the service, called one at a time
BoundaryNext ==
    \/ Startup
    \/ Quiet /\ TestConnection
    \/ \E i \in BagToSet(tests) : TestReply(i)
    \/ \E i \in BagToSet(tests) : TestDelayDone(i)
    \/ Quiet /\ SaveConfig
    \/ \E k \in BagToSet(saves) : SaveConfigReply(k)
    \/ Quiet /\ OnDrop
    \/ Quiet /\ SendMessage
    \/ SendReply
    \/ Quiet /\ EditNewTopicName
    \/ Quiet /\ CreateTopic
    \/ CreateTopicReply
    \/ Quiet /\ FetchMessages
    \/ FetchReply

BoundarySpec == Init /\ [][BoundaryNext]_vars

\* ------------------------------------------------------------------ claims
\* a run of `bag` that has seen a cancel goes on or ends in this step
CancelledRunSteps(bag, bagNext) ==
    \E r \in BagToSet(bag) : r.cancelled /\ CopiesIn(r, bagNext) < CopiesIn(r, bag)

\* C1: once cancelTestConnection was called while a testConnection run awaited
\* the backend, no later step of that run changes connectionStatus, isTesting
\* or isLoading, whatever was done in between.
C1_CancelledTestIsDiscarded ==
    [][ CancelledRunSteps(tests, tests')
          => UNCHANGED << connectionStatus, isTesting, isLoading >> ]_vars

\* a connection test has been started and has not completed
TestInProgress ==
    tests # EmptyBag \/ checks # EmptyBag \/ isTesting \/ connectionStatus = "testing"

\* C2: cancelTestConnection changes connectionStatus and testingCancelled only
\* while a connection test is in progress; otherwise it changes nothing.
C2_CancelOnlyFromTesting ==
    [][ CancelTestConnection
          => (TestInProgress \/ UNCHANGED << connectionStatus, testingCancelled >>) ]_vars

WrappedOperations ==
    { "sendMessage", "saveConfig", "testConnection", "createTopic", "consumeMessages" }

\* C3: a wrapped operation of TauriService resolves exactly when the envelope
\* is Ok, then with the envelope's payload (nothing for saveConfig), and else
\* rejects with the envelope's Err string as the message.
C3_EnvelopeUnwrapped ==
    (settled.op \in WrappedOperations /\ settled.result.type # "none") =>
        /\ (settled.outcome.kind = "resolve") <=> (settled.result.type = "Ok")
        /\ settled.result.type = "Ok" =>
             IF settled.op = "saveConfig"
             THEN settled.outcome.value = ""
             ELSE settled.outcome.value = settled.result.data
        /\ settled.result.type = "Err" =>
             /\ settled.outcome.kind = "reject"
             /\ settled.outcome.message = settled.result.data

\* C3 witness: saveConfig received an Err envelope and rejected with its string
C3_Witness ==
    /\ settled.op = "saveConfig"
    /\ settled.result.type = "Err"
    /\ settled.outcome.kind = "reject"
    /\ settled.outcome.message \in SaveErrors

NoPendingEntry == \A n \in DOMAIN messages : messages[n].status # "pending"

\* the entry the running sendMessage holds, where the history still has it
HeldEntries(history) == { n \in DOMAIN history : history[n].id = sendEntry }

\* C4: a send that passed the guard finishes even if the backend never answers:
\* isSending returns to false with no entry left pending, and a send that the
\* timer ended leaves its entry in 'error' with the timeout message.
C4_SendFinishes ==
    /\ isSending ~> (~isSending /\ NoPendingEntry)
    /\ [][ (isSending /\ ~isSending' /\ settled'.op = "none") =>
             \A n \in HeldEntries(messages) :
                 /\ messages'[n].status = "error"
                 /\ messages'[n].errorMessage = SendTimeoutMessage ]_vars

\* C4 witness: the timer has ended a send
C4_Witness ==
    /\ ~isSending
    /\ \E n \in DOMAIN messages :
         messages[n].status = "error" /\ messages[n].errorMessage = SendTimeoutMessage

Ids(history) == { history[n].id : n \in DOMAIN history }

\* C5: a send that passes the guard puts exactly one entry, pending and with
\* the sent content, in front of the history; an entry's status changes only
\* from 'pending' to 'success' or 'error', its content never; and no entry is
\* pending once its send has finished.
C5_HistoryStatus ==
    /\ [][ /\ (~isSending /\ isSending') =>
                messages' = << NewEntry(sendEntry', messageContent) >> \o messages
           /\ Ids(messages') \subseteq Ids(messages) \cup { sendEntry' }
           /\ (Ids(messages') \ Ids(messages) # {}) =>
                (~isSending /\ isSending' /\ sendEntry' \notin Ids(messages))
           /\ \A n \in DOMAIN messages : \A m \in DOMAIN messages' :
                messages[n].id = messages'[m].id =>
                  /\ messages'[m].content = messages[n].content
                  /\ \/ messages'[m] = messages[n]
                     \/ /\ messages[n].status = "pending"
                        /\ messages'[m].status \in { "success", "error" } ]_vars
    /\ [](~isSending => NoPendingEntry)

\* C5 witness: the history holds a sent and a failed message
C5_Witness ==
    /\ ~isSending
    /\ Len(messages) = 2
    /\ messages[1].status = "success"
    /\ messages[2].status = "error"

\* C6: when consumeMessages resolves with an empty sequence, fetchMessages
\* reports no error: consumeError stays empty.
C6_EmptyBatchIsNoError ==
    ( /\ settled.op = "consumeMessages"
      /\ settled.outcome.kind = "resolve"
      /\ Len(settled.outcome.value) = 0 ) => consumeError = ""

\* C7: once loadConfig has returned, the component's config equals the
\* configuration the backend holds.
C7_ConfigMatchesSaved ==
    (inTauri /\ initPc \in { "setupFileDrop", "done" }) => config = persisted

\* a test-connection call settled in this step and its run published at once
RunEndsWith(type) ==
    /\ settled'.op = "testConnection"
    /\ settled'.result.type = type
    /\ \/ BagCardinality(checks') < BagCardinality(checks)
       \/ BagCardinality(tests') < BagCardinality(tests) /\ ~testingCancelled

\* C8: connectionStatus is 'testing' once a test is started; a test that is not
\* cancelled ends in 'connected' exactly when the backend returned Ok, and a
\* test that timed out ends in a state other than the one of any other failure.
C8_TerminalStates ==
    [][ /\ ( \/ BagCardinality(checks') > BagCardinality(checks)
             \/ BagCardinality(tests') > BagCardinality(tests) )
              => connectionStatus' = "testing"
        /\ RunEndsWith("Ok") => connectionStatus' = "connected"
        /\ (RunEndsWith("Err") /\ settled'.result.data # "timeout")
              => connectionStatus' = "error"
        /\ (RunEndsWith("Err") /\ settled'.result.data = "timeout")
              => connectionStatus' # "error" ]_vars

\* C9: once cancelTestConnection was called while a check was running, no
\* later step of that check changes connectionStatus.
C9_CancelledCheckIsDiscarded ==
    [][ CancelledRunSteps(checks, checks') => UNCHANGED connectionStatus ]_vars

\* the timeouts the component may pass to test_kafka_connection
AllowedTimeouts == 3..10

\* C10: every test-connection request carries a timeout between 3 and 10
\* seconds, and so does the default of the service.
C10_TimeoutInRange ==
    /\ \A r \in BagToSet(tests) \cup BagToSet(checks) : r.timeoutSecs \in AllowedTimeouts
    /\ DefaultTimeoutSecs \in AllowedTimeouts

\* C10 witness: a request of testConnection and one of the check are outstanding
C10_Witness ==
    /\ \E r \in Awaiting(tests) : r.timeoutSecs = TestTimeoutSecs
    /\ \E r \in Awaiting(checks) : r.timeoutSecs = CheckTimeoutSecs

\* the timeout the README documents for Test Connection ("3s timeout")
DocumentedTestTimeoutSecs == 3

\* C11: every test_kafka_connection request that a user-initiated
\* testConnection has outstanding carries a timeout of 3 seconds.
C11_TestTimeoutIsThree ==
    \A r \in BagToSet(tests) : r.timeoutSecs = DocumentedTestTimeoutSecs

\* a run of `bag` ends in this step
RunEnds(bag, bagNext) == BagCardinality(bagNext) < BagCardinality(bag)

\* C12: outside the Tauri webview every operation of TauriService rejects with
\* the not-in-Tauri Error and no reply of the backend; loadConfig then leaves
\* the default config, and a connection test (one not cancelled) ends in 'error'.
C12_FailsOutsideTauri ==
    /\ []( (~inTauri /\ settled.op # "none") =>
              /\ settled.result = NoEnvelope
              /\ settled.outcome.kind = "reject"
              /\ settled.outcome.message = NotTauriMessage )
    /\ []( (~inTauri /\ settled.op = "getConfig") => config = DefaultConfig )
    /\ [][ ( /\ ~inTauri
             /\ \/ RunEnds(checks, checks')
                \/ RunEnds(tests, tests') /\ ~testingCancelled )
              => connectionStatus' = "error" ]_vars

\* C12 witness: outside Tauri, the request of a user's connection test was
\* rejected and the config is still the default
C12_Witness ==
    /\ ~inTauri
    /\ isTesting
    /\ settled.op = "testConnection"
    /\ settled.outcome = NotTauriRejection
    /\ config = DefaultConfig

PendingEntries == { n \in DOMAIN messages : messages[n].status = "pending" }

\* C13: sendMessage called with blank (empty or whitespace-only) content, or
\* while isSending, changes no state: no history entry, no id drawn, no request.
\* An entry is added, and a request issued, only by a call made while no send is
\* running, so at most one invocation is between the guard and its finally block.
C13_SendGuard ==
    /\ [][ /\ (SendMessage /\ (Trim(messageContent) = <<>> \/ isSending)) =>
                UNCHANGED << envVars, cfgVars, initPc, connVars, sendVars,
                             topicVars, consumeVars >>
           /\ (Len(messages') > Len(messages) \/ nextId' # nextId) =>
                (~isSending /\ isSending' /\ Trim(messageContent) # <<>>) ]_vars
    /\ [](Cardinality(PendingEntries) <= 1)

\* C13 witness: a send is running and the composer holds whitespace only
C13_Witness ==
    /\ isSending
    /\ messageContent # <<>>
    /\ Trim(messageContent) = <<>>

\* the running sendMessage reaches its finally block in this step
SendEnds == isSending /\ ~isSending'

\* the service call of the send resolved in this step
SendSucceeds == settled'.op = "sendMessage" /\ settled'.outcome.kind = "resolve"

\* C14: a send that fails or times out leaves messageContent unchanged and
\* sets connectionStatus to 'error'; a send that succeeds clears messageContent
\* and sets connectionStatus to 'connected'; isSending is false after either.
C14_FailedSendKeepsContent ==
    [][ /\ (SendReply \/ SendTimeout) => ~isSending'
        /\ (SendEnds /\ SendSucceeds) =>
              (messageContent' = <<>> /\ connectionStatus' = "connected")
        /\ (SendEnds /\ ~SendSucceeds) =>
              (UNCHANGED messageContent /\ connectionStatus' = "error") ]_vars

\* C14 witness: a send was rejected and the composer still holds the message
C14_Witness ==
    /\ ~isSending
    /\ settled.op = "sendMessage"
    /\ settled.outcome.kind = "reject"
    /\ Trim(messageContent) # <<>>
    /\ connectionStatus = "error"

\* a saveConfig call returns in this step
SaveEnds == BagCardinality(saves') < BagCardinality(saves)

\* C15: when saveConfig returns, it has closed the settings panel and started
\* a connection check if the backend answered Ok; if the backend answered Err,
\* or the call was rejected, showSettings and connectionStatus are unchanged
\* and no connection test is issued.
C15_SaveClosesOnOk ==
    [][ SaveEnds =>
          /\ settled'.op = "saveConfig"
          /\ IF settled'.result.type = "Ok"
             THEN /\ showSettings' = FALSE
                  /\ connectionStatus' = "testing"
                  /\ checks' = Put(checks, NewRun(CheckTimeoutSecs))
                  /\ UNCHANGED tests
             ELSE UNCHANGED << showSettings, connectionStatus, checks, tests >> ]_vars

\* C15 witness: a configuration with a certificate path was saved; the panel
\* is closed and the re-check is running
C15_Witness ==
    /\ settled.op = "saveConfig"
    /\ settled.result.type = "Ok"
    /\ ~showSettings
    /\ connectionStatus = "testing"
    /\ config.ssl_ca_cert_path # ""
    /\ persisted = config

\* a run is added to `bag` in this step
RunStarts(bag, bagNext) == BagCardinality(bagNext) > BagCardinality(bag)

\* C16: at startup no connection check is running before loadConfig has
\* returned; the check is started by the step that ends ngOnInit, after the
\* get-config call settled; and when get-config fails, the component keeps its
\* default config and the check is started all the same.
C16_CheckAfterLoad ==
    /\ [](initPc \in { "start", "loadConfig" } => checks = EmptyBag)
    /\ [][ /\ RunStarts(checks, checks') =>
                /\ initPc \in { "loadConfig", "setupFileDrop" }
                /\ initPc' = "done"
                /\ initPc = "loadConfig" => settled'.op = "getConfig"
           /\ (settled'.op = "getConfig" /\ settled'.outcome.kind = "reject") =>
                /\ config' = DefaultConfig
                /\ checks' = Put(checks, NewRun(CheckTimeoutSecs)) ]_vars

\* C16 witness: get-config failed, the config is the default and the check runs
C16_Witness ==
    /\ initPc = "done"
    /\ settled.op = "getConfig"
    /\ settled.outcome.kind = "reject"
    /\ config = DefaultConfig
    /\ Awaiting(checks) # {}
    /\ connectionStatus = "testing"

\* C17: createTopic called with a blank name, or while a creation is in
\* progress, changes no state, so at most one create-topic request is
\* outstanding; when the request completes, isCreatingTopic is false, and the
\* status is 'success' with newTopicName cleared if the backend answered Ok,
\* and otherwise 'error' with newTopicName as it was and a non-empty message.
C17_CreateTopic ==
    /\ [][ /\ (CreateTopic /\ (Trim(newTopicName) = <<>> \/ isCreatingTopic)) =>
                UNCHANGED << envVars, cfgVars, initPc, connVars, sendVars,
                             topicVars, consumeVars >>
           /\ RunEnds(creates, creates') =>
                /\ ~isCreatingTopic'
                /\ settled'.op = "createTopic"
                /\ IF settled'.result.type = "Ok"
                   THEN topicCreateStatus' = "success" /\ newTopicName' = <<>>
                   ELSE /\ topicCreateStatus' = "error"
                        /\ UNCHANGED newTopicName
                        /\ topicCreateMessage' # "" ]_vars
    /\ [](BagCardinality(creates) <= 1)

\* C17 witness: the backend answered Err with an empty string; the status is
\* 'error' with the fallback message and the typed name is still there
C17_Witness ==
    /\ settled.op = "createTopic"
    /\ settled.result = Envelope("Err", "")
    /\ ~isCreatingTopic
    /\ topicCreateStatus = "error"
    /\ topicCreateMessage = CreateFallbackMessage
    /\ Trim(newTopicName) # <<>>

\* a fetchMessages step taken while isConsuming changes no state, and no two
\* consume requests are outstanding after any step
FetchGuarded ==
    /\ (FetchMessages /\ isConsuming) =>
          UNCHANGED << envVars, cfgVars, initPc, connVars, sendVars, topicVars, consumeVars >>
    /\ BagCardinality(fetches') <= 1

\* when a consume request completes, isConsuming is false; if it was answered
\* Err or rejected, consumedMessages is empty and consumeError is not
FetchCompletes ==
    RunEnds(fetches, fetches') =>
      /\ ~isConsuming'
      /\ settled'.op = "consumeMessages"
      /\ settled'.outcome.kind = "reject" =>
            (consumedMessages' = <<>> /\ consumeError' # "")

\* C18 as stated: fetchMessages is a no-op while isConsuming, so at most one
\* consume request is outstanding; the request names consumeTopic, or
\* config.topic when consumeTopic is blank; on Err or rejection
\* consumedMessages is emptied and consumeError is non-empty; isConsuming is
\* false after every completion.
C18_FetchRequestsConsumeTopic ==
    [][ /\ FetchGuarded
        /\ FetchCompletes
        /\ RunStarts(fetches, fetches') =>
              fetches' = Put(fetches, IF Trim(consumeTopic) = <<>>
                                      THEN config.topic ELSE consumeTopic) ]_vars

\* C18 as amended: the same, but the request names consumeTopic with the
\* whitespace around it removed, or config.topic when consumeTopic is blank.
C18_FetchRequestsTrimmedTopic ==
    [][ /\ FetchGuarded
        /\ FetchCompletes
        /\ RunStarts(fetches, fetches') =>
              fetches' = Put(fetches, IF Trim(consumeTopic) = <<>>
                                      THEN config.topic ELSE Trim(consumeTopic)) ]_vars

\* C18 witness: a topic typed with a trailing blank is requested without it
C18_Witness ==
    /\ isConsuming
    /\ consumeTopic # Trim(consumeTopic)
    /\ BagToSet(fetches) = { Trim(consumeTopic) }

\* the test_kafka_connection requests awaiting the backend: those of the
\* testConnection runs and those of the checkConnectionWithSpinner runs
OutstandingTestRequests(testBag, checkBag) ==
    LET count(bag) ==
            BagCardinality([ r \in Awaiting(bag) |-> bag[r] ])
    IN  count(testBag) + count(checkBag)

\* C19: at most one test-connection request is outstanding at the backend at
\* any time, whether issued by testConnection or by checkConnectionWithSpinner.
C19_OneTestRequest == OutstandingTestRequests(tests, checks) <= 1

====
